---- MODULE Spec2Model ----
(***************************************************************************)
(* A model of the slock crate: Slock<T> is an Arc<RwLock<SlockData<T>>>.   *)
(* Cells are the SlockData records behind the Arc, handles are the Slock   *)
(* values that point at them, threads call the operations of lib.rs.       *)
(* set and map are split in the call (the thread commits to lock.write()   *)
(* or lock.read()), the acquisition, and the steps taken under the lock;   *)
(* get, get_clone, hook, split and clone hold their lock for one step.     *)
(* The 1 s guards of set and map (async_std's timeout) are inputs: each    *)
(* yields Ok, or Err when it elapsed, or the closure under it panics.      *)
(* Spec is the life of integer cells; SpecVec is a Slock<Vec<T>> and its    *)
(* pushes, SpecMap a SlockMap and its lookups and inserts, SpecDrop a cell  *)
(* of a type with a destructor, whose handles are dropped in the end.      *)
(***************************************************************************)
EXTENDS Integers, Sequences, FiniteSets, TLC

(* ------------------------------- bounds -------------------------------- *)
NThreads == 2
MaxCells == 3
MaxHandles == 3
MaxOps == 4
NHooks == 2
MaxKeys == 2

Threads == 1..NThreads
Cells == 1..MaxCells
Handles == 1..MaxHandles
HookIds == 1..NHooks
Keys == 1..MaxKeys
\* the values built for one cell, numbered in the order they are built
Objs == 0..MaxOps

\* the setter closures the crate's docs and tests pass to set:
\*   inc   |v| v + 1                      (lib.rs:16, tests.rs:20)
\*   id    |v| v                          (tests.rs:107)
\*   nest  |v| v + block_on(other.get())  (lib.rs:44)
Setters == {"inc", "id", "nest"}

VARIABLES
  value,     \* SlockData.value of each cell (the bits stored in the slot)
  version,   \* SlockData.version
  hook,      \* SlockData.hook: 0 is None, k is Some(hook k)
  slot,      \* "valid": the slot owns its value; "taken": ptr.read() moved it out
  poisoned,  \* the RwLock's poison flag
  writer,    \* the thread holding the RwLock exclusively, 0 when none
  readers,   \* the threads holding the RwLock shared
  ncells,    \* cells allocated so far (Slock::new calls)
  nhandles,  \* handles allocated so far
  hcell,     \* the cell each handle's Arc points at, 0 for a handle not yet made
  origin,    \* how each handle was made: new, split or clone, and from which handle
  pc,        \* each thread's position
  th,        \* each thread's call in flight
  ret,       \* what each thread's last call returned
  init,      \* the value each cell was constructed with
  nsets,     \* per cell, the set calls that returned
  nincs,     \* per cell, the returned set calls whose setter was inc and returned a value
  okHooked,  \* per cell, the returned set calls whose setter returned while a hook was set
  lost,      \* per cell, those of okHooked whose hook guard elapsed
  hookCalls, \* per cell and hook, how often the hook was invoked
  lastArg,   \* per cell, the argument of the latest hook invocation
  nops,      \* calls started so far
  npush,     \* per cell, the returned push calls whose item was appended
  cur,       \* per cell, the value whose bits the slot holds (its number in Objs)
  built,     \* per cell, the values built for it so far
  drops      \* per cell and value, how often the value's destructor has run

vars == <<value, version, hook, slot, poisoned, writer, readers, ncells, nhandles, hcell,
          origin, pc, th, ret, init, nsets, nincs, okHooked, lost, hookCalls, lastArg,
          nops, npush, cur, built, drops>>

cellVars == <<value, version, hook, slot, poisoned, init>>
lockVars == <<writer, readers>>
handleVars == <<ncells, nhandles, hcell, origin>>
logVars == <<nsets, nincs, okHooked, lost, hookCalls, lastArg>>
dropVars == <<cur, built, drops>>

NoCall == [op |-> "none", h |-> 0, c |-> 0, fn |-> "none", h2 |-> 0, hk |-> 0,
           arg |-> 0, new |-> 0, old |-> 0, ver |-> 0, key |-> 0, obj |-> 0]
NoRet == [h |-> 0, guard |-> "none", res |-> "none", val |-> 0, tries |-> 0]

NoOrigin == [kind |-> "none", from |-> 0]

(* ------------------------------ Slock::new ----------------------------- *)
\* the SlockData a call of new(v) builds
NewData(v) == [version |-> 0, value |-> v, hook |-> 0]

\* one cell and its handle, lock = Slock::new(v); the cells not yet built hold nothing
InitNew(v) ==
  /\ ncells = 1
  /\ nhandles = 1
  /\ value = [c \in Cells |-> IF c = 1 THEN NewData(v).value ELSE 0]
  /\ version = [c \in Cells |-> NewData(0).version]
  /\ hook = [c \in Cells |-> NewData(0).hook]
  /\ slot = [c \in Cells |-> "valid"]
  /\ poisoned = [c \in Cells |-> FALSE]
  /\ writer = [c \in Cells |-> 0]
  /\ readers = [c \in Cells |-> {}]
  /\ hcell = [h \in Handles |-> IF h <= 1 THEN h ELSE 0]
  /\ origin = [h \in Handles |-> IF h <= 1 THEN [kind |-> "new", from |-> 0] ELSE NoOrigin]
  /\ pc = [t \in Threads |-> "idle"]
  /\ th = [t \in Threads |-> NoCall]
  /\ ret = [t \in Threads |-> NoRet]
  /\ init = [c \in Cells |-> IF c = 1 THEN v ELSE 0]
  /\ nsets = [c \in Cells |-> 0]
  /\ nincs = [c \in Cells |-> 0]
  /\ okHooked = [c \in Cells |-> 0]
  /\ lost = [c \in Cells |-> 0]
  /\ hookCalls = [c \in Cells |-> [k \in HookIds |-> 0]]
  /\ lastArg = [c \in Cells |-> 0]
  /\ nops = 0
  /\ npush = [c \in Cells |-> 0]
  /\ cur = [c \in Cells |-> 0]
  /\ built = [c \in Cells |-> 1]
  /\ drops = [c \in Cells |-> [o \in Objs |-> 0]]

\* lock = Slock::new(0), as in the crate's examples
Init == InitNew(0)

Live(h) == hcell[h] # 0

\* the handles whose Arc points at cell c
HandlesOf(c) == {h \in Handles : hcell[h] = c}

(* ------------------------------ the RwLock ----------------------------- *)
\* a write lock that does not exclude other writers
CanWriteShared(c) == readers[c] = {}

\* lock.write() can return: nobody holds the lock
CanWrite(c) == writer[c] = 0 /\ readers[c] = {}
\* a read lock that is granted while a writer holds the lock
CanReadAlways(c) == TRUE

\* lock.read() can return: no writer holds the lock
CanRead(c) == writer[c] = 0

\* the thread leaves its call with result r
Return(t, r) ==
  /\ pc' = [pc EXCEPT ![t] = "idle"]
  /\ th' = [th EXCEPT ![t] = NoCall]
  /\ ret' = [ret EXCEPT ![t] = [r EXCEPT !.h = th[t].h]]

\* a call starts: the thread commits to the lock acquisition at position p
Call(t, p, call) ==
  /\ pc[t] = "idle"
  /\ nops < MaxOps
  /\ nops' = nops + 1
  /\ pc' = [pc EXCEPT ![t] = p]
  /\ th' = [th EXCEPT ![t] = call]
  /\ ret' = [ret EXCEPT ![t] = NoRet]

\* the call ends in a panic; the thread's later calls are those of the code that
\* caught the unwinding
Panicked == [NoRet EXCEPT !.res = "panic"]

(* ------------------------------ Slock::set ----------------------------- *)
\* an insert on a present key that applies the updater to None
ApplyFresh(fn, v, arg) ==
  CASE fn = "inc" -> v + 1
    [] fn = "id" -> v
    [] fn = "nest" -> v + arg
    [] fn = "push" -> Append(v, arg)
    [] fn = "upd" -> arg

\* a push that replaces the vector by one holding its item alone
ApplyReplacing(fn, v, arg) ==
  CASE fn = "inc" -> v + 1
    [] fn = "id" -> v
    [] fn = "nest" -> v + arg
    [] fn = "push" -> <<arg>>
    [] fn = "upd" -> v + arg

\* what the setter closure returns for the value v it was given; push is the closure
\* of Slock<Vec<T>>::push (lines 205-208), upd the closure |v| setter(Some(v)) of
\* SlockMap::insert (line 236) with the updater Some(v) -> v + arg, None -> arg
Apply(fn, v, arg) ==
  CASE fn = "inc" -> v + 1
    [] fn = "id" -> v
    [] fn = "nest" -> v + arg
    [] fn = "push" -> Append(v, arg)
    [] fn = "upd" -> v + arg

\* the setters that consume the value they are given and build the one they return;
\* the others (|v| v, push, the map's insert) hand back the value they were given
Builders == {"inc", "nest", "upd"}

\* the destructor of value o of cell c has run once more
Dropped(c, o) == [drops EXCEPT ![c][o] = @ + 1]

\* lock.set(setter) is called through handle h
CallSet(t) ==
  \E h \in Handles, fn \in Setters, h2 \in Handles :
    /\ Live(h)
    /\ IF fn = "nest" THEN Live(h2) /\ hcell[h2] # hcell[h] ELSE h2 = h
    /\ Call(t, "set_wait", [NoCall EXCEPT !.op = "set", !.h = h, !.c = hcell[h],
                                          !.fn = fn, !.h2 = h2])
    /\ UNCHANGED <<npush, dropVars>>
    /\ UNCHANGED <<cellVars, lockVars, handleVars, logVars>>

\* a set whose wait for the lock is under the guard too: it gives up on a held lock
SetAcquireTimed(t) ==
  LET c == th[t].c IN
  /\ pc[t] = "set_wait"
  /\ IF ~CanWrite(c)
       THEN /\ Return(t, [NoRet EXCEPT !.guard = "timeout", !.res = "unit"])
            /\ UNCHANGED writer
       ELSE IF poisoned[c]
              THEN /\ Return(t, Panicked)
                   /\ UNCHANGED writer
              ELSE /\ writer' = [writer EXCEPT ![c] = t]
                   /\ pc' = [pc EXCEPT ![t] = "set_locked"]
                   /\ th' = [th EXCEPT ![t].old = value[c], ![t].ver = version[c]]
                   /\ UNCHANGED ret
  /\ UNCHANGED <<npush, dropVars>>
  /\ UNCHANGED <<cellVars, readers, handleVars, logVars, nops>>

\* self.lock.write() returns: Ok(data), or Err(_) of a poisoned lock and the panic
SetAcquire(t) ==
  LET c == th[t].c IN
  /\ pc[t] = "set_wait"
  /\ CanWrite(c)
  /\ IF poisoned[c]
       THEN /\ Return(t, Panicked)
            /\ UNCHANGED writer
       ELSE /\ writer' = [writer EXCEPT ![c] = t]
            /\ pc' = [pc EXCEPT ![t] = "set_locked"]
            /\ th' = [th EXCEPT ![t].old = value[c], ![t].ver = version[c]]
            /\ UNCHANGED ret
  /\ UNCHANGED <<npush, dropVars>>
  /\ UNCHANGED <<cellVars, readers, handleVars, logVars, nops>>

\* line 146 and the end of the Ok arm: data.version += 1, the write guard is dropped
Release(c) ==
  /\ version' = [version EXCEPT ![c] = @ + 1]
  /\ writer' = [writer EXCEPT ![c] = 0]

\* a timed-out set that still notifies the hook, with the value left in the slot
SetTimeoutNotified(t) ==
  LET c == th[t].c IN
  /\ pc[t] = "set_locked"
  /\ version' = [version EXCEPT ![c] = @ + 1]
  /\ writer' = [writer EXCEPT ![c] = 0]
  /\ nsets' = [nsets EXCEPT ![c] = @ + 1]
  /\ IF hook[c] # 0
       THEN /\ hookCalls' = [hookCalls EXCEPT ![c][hook[c]] = @ + 1]
            /\ lastArg' = [lastArg EXCEPT ![c] = value[c]]
       ELSE UNCHANGED <<hookCalls, lastArg>>
  /\ Return(t, [NoRet EXCEPT !.guard = "timeout", !.res = "unit", !.tries = 1])
  /\ UNCHANGED <<npush, dropVars>>
  /\ UNCHANGED <<value, hook, slot, poisoned, init, readers, handleVars, nincs,
                 okHooked, lost, nops>>

\* a timed-out set that returns without counting itself in version
SetTimeoutUncounted(t) ==
  LET c == th[t].c IN
  /\ pc[t] = "set_locked"
  /\ writer' = [writer EXCEPT ![c] = 0]
  /\ nsets' = [nsets EXCEPT ![c] = @ + 1]
  /\ Return(t, [NoRet EXCEPT !.guard = "timeout", !.res = "unit", !.tries = 1])
  /\ UNCHANGED <<npush, dropVars>>
  /\ UNCHANGED <<value, version, hook, slot, poisoned, init, readers, handleVars, nincs,
                 okHooked, lost, hookCalls, lastArg, nops>>

\* the guard of line 133 yields Err: the block setter(ptr.read()) has no suspension
\* point, so it has not run; `if let Ok(new)` is skipped
SetTimeout(t) ==
  LET c == th[t].c IN
  /\ pc[t] = "set_locked"
  /\ Release(c)
  /\ nsets' = [nsets EXCEPT ![c] = @ + 1]
  /\ Return(t, [NoRet EXCEPT !.guard = "timeout", !.res = "unit", !.tries = 1])
  /\ UNCHANGED <<npush, dropVars>>
  /\ UNCHANGED <<value, hook, slot, poisoned, init, readers, handleVars, nincs,
                 okHooked, lost, hookCalls, lastArg, nops>>

\* setter(ptr.read()) returns: the value is moved out of the slot, new is computed
SetterRun(t) ==
  LET c == th[t].c IN
  /\ \/ pc[t] = "set_locked" /\ th[t].fn \notin {"nest", "insert"}
     \/ pc[t] = "set_run"
  /\ slot' = [slot EXCEPT ![c] = "taken"]
  /\ IF th[t].fn \in Builders
       THEN /\ drops' = Dropped(c, cur[c])
            /\ built' = [built EXCEPT ![c] = @ + 1]
            /\ th' = [th EXCEPT ![t].new = Apply(th[t].fn, value[c], th[t].arg),
                                ![t].obj = built[c]]
       ELSE /\ th' = [th EXCEPT ![t].new = Apply(th[t].fn, value[c], th[t].arg),
                                ![t].obj = cur[c]]
            /\ UNCHANGED <<drops, built>>
  /\ pc' = [pc EXCEPT ![t] = "set_hook"]
  /\ UNCHANGED <<npush, cur>>
  /\ UNCHANGED <<value, version, hook, poisoned, init, lockVars, handleVars, logVars,
                 ret, nops>>

\* a panic unwinds out of the write section: the value the panicking closure holds
\* is dropped by the unwinding, the slot keeps its bits, and the guard's drop poisons
\* the lock
Unwind(t, c) ==
  /\ poisoned' = [poisoned EXCEPT ![c] = TRUE]
  /\ writer' = [writer EXCEPT ![c] = 0]
  /\ slot' = [slot EXCEPT ![c] = "taken"]
  /\ Return(t, [Panicked EXCEPT !.guard = "panic", !.tries = 1])

\* the setter panics while it owns the value moved out of the slot
SetterPanic(t) ==
  LET c == th[t].c IN
  /\ \/ pc[t] = "set_locked" /\ th[t].fn # "nest"
     \/ pc[t] = "set_run"
  /\ Unwind(t, c)
  /\ drops' = Dropped(c, cur[c])
  /\ UNCHANGED <<npush, cur, built>>
  /\ UNCHANGED <<value, version, hook, init, readers, handleVars, logVars, nops>>

\* the nest setter starts: it holds the moved-out value and calls other.get()
NestCall(t) ==
  LET c == th[t].c IN
  /\ pc[t] = "set_locked"
  /\ th[t].fn = "nest"
  /\ slot' = [slot EXCEPT ![c] = "taken"]
  /\ pc' = [pc EXCEPT ![t] = "set_nest"]
  /\ UNCHANGED <<npush, dropVars>>
  /\ UNCHANGED <<value, version, hook, poisoned, init, lockVars, handleVars, logVars,
                 th, ret, nops>>

\* block_on(other.get()) inside the setter: other.lock.read() returns
NestGet(t) ==
  LET c == th[t].c
      c2 == hcell[th[t].h2] IN
  /\ pc[t] = "set_nest"
  /\ CanRead(c2)
  /\ IF poisoned[c2]
       THEN /\ Unwind(t, c)
            /\ drops' = Dropped(c, cur[c])
       ELSE /\ th' = [th EXCEPT ![t].arg = value[c2]]
            /\ pc' = [pc EXCEPT ![t] = "set_run"]
            /\ UNCHANGED <<poisoned, writer, slot, ret, drops>>
  /\ UNCHANGED <<npush, cur, built>>
  /\ UNCHANGED <<value, version, hook, init, readers, handleVars, logVars, nops>>

\* what the guard of line 138 can yield: the hook returned, the guard elapsed (the
\* block has no suspension point, so the hook has not run), the hook panicked
HookOutcomes == {"ok", "timeout", "panic"}

\* a hook called with the value the setter was given
HookArgOld(t) == th[t].old

\* what the hook is called with: hook(&new)
HookArg(t) == th[t].new

\* what ptr.write stores
Written(t) == th[t].new

\* lines 137-146: the hook under its guard, ptr.write(new), version += 1, guard dropped
SetNotify(t) ==
  LET c == th[t].c IN
  /\ pc[t] = "set_hook"
  /\ \E hout \in HookOutcomes :
       /\ hook[c] = 0 => hout = "ok"
       /\ IF hook[c] # 0 /\ hout # "timeout"
            THEN /\ hookCalls' = [hookCalls EXCEPT ![c][hook[c]] = @ + 1]
                 /\ lastArg' = [lastArg EXCEPT ![c] = HookArg(t)]
            ELSE UNCHANGED <<hookCalls, lastArg>>
       /\ IF hout = "panic"
            THEN /\ Unwind(t, c)
                 /\ drops' = Dropped(c, th[t].obj)
                 /\ UNCHANGED <<value, version, nsets, nincs, okHooked, lost, npush, cur>>
            ELSE /\ value' = [value EXCEPT ![c] = Written(t)]
                 /\ slot' = [slot EXCEPT ![c] = "valid"]
                 /\ Release(c)
                 /\ nsets' = [nsets EXCEPT ![c] = @ + 1]
                 /\ nincs' = [nincs EXCEPT ![c] = IF th[t].fn = "inc" THEN @ + 1 ELSE @]
                 /\ okHooked' = [okHooked EXCEPT ![c] = IF hook[c] # 0 THEN @ + 1 ELSE @]
                 /\ lost' = [lost EXCEPT ![c] = IF hook[c] # 0 /\ hout = "timeout"
                                                   THEN @ + 1 ELSE @]
                 /\ npush' = [npush EXCEPT ![c] = IF th[t].fn = "push" THEN @ + 1 ELSE @]
                 /\ cur' = [cur EXCEPT ![c] = th[t].obj]
                 /\ Return(t, [NoRet EXCEPT !.guard = "ok", !.res = "unit", !.tries = 1])
                 /\ UNCHANGED <<poisoned, drops>>
  /\ UNCHANGED built
  /\ UNCHANGED <<hook, init, readers, handleVars, nops>>

(* ------------------------------ Slock::map ----------------------------- *)
\* lock.map(mapper) is called through handle h; the mapper is |v| *v
CallMap(t) ==
  \E h \in Handles :
    /\ Live(h)
    /\ Call(t, "map_wait", [NoCall EXCEPT !.op = "map", !.h = h, !.c = hcell[h]])
    /\ UNCHANGED <<npush, dropVars>>
    /\ UNCHANGED <<cellVars, lockVars, handleVars, logVars>>

\* a map that reads through a poisoned lock
MapAcquireRecovering(t) ==
  LET c == th[t].c IN
  /\ pc[t] = "map_wait"
  /\ CanRead(c)
  /\ readers' = [readers EXCEPT ![c] = @ \cup {t}]
  /\ pc' = [pc EXCEPT ![t] = "map_locked"]
  /\ UNCHANGED <<th, ret>>
  /\ UNCHANGED <<npush, dropVars>>
  /\ UNCHANGED <<cellVars, writer, handleVars, logVars, nops>>

\* self.lock.read() returns: Ok(v), or Err(_) of a poisoned lock and the panic
MapAcquire(t) ==
  LET c == th[t].c IN
  /\ pc[t] = "map_wait"
  /\ CanRead(c)
  /\ IF poisoned[c]
       THEN /\ Return(t, Panicked)
            /\ UNCHANGED readers
       ELSE /\ readers' = [readers EXCEPT ![c] = @ \cup {t}]
            /\ pc' = [pc EXCEPT ![t] = "map_locked"]
            /\ UNCHANGED <<th, ret>>
  /\ UNCHANGED <<npush, dropVars>>
  /\ UNCHANGED <<cellVars, writer, handleVars, logVars, nops>>

\* a map that hides an elapsed guard behind a value
MapResultSwallowed(out, v) ==
  CASE out = "ok" -> [NoRet EXCEPT !.guard = "ok", !.res = "Ok", !.val = v, !.tries = 1]
    [] out = "timeout" -> [NoRet EXCEPT !.guard = "timeout", !.res = "Ok", !.tries = 1]
    [] out = "panic" -> [Panicked EXCEPT !.guard = "panic", !.tries = 1]

\* what map returns for each outcome of its guard (lines 107-110)
MapResult(out, v) ==
  CASE out = "ok" -> [NoRet EXCEPT !.guard = "ok", !.res = "Ok", !.val = v, !.tries = 1]
    [] out = "timeout" -> [NoRet EXCEPT !.guard = "timeout", !.res = "TimedOut", !.tries = 1]
    [] out = "panic" -> [Panicked EXCEPT !.guard = "panic", !.tries = 1]

\* the mapper under its guard; the read guard is dropped (a reader's panic does not
\* poison an RwLock)
MapRun(t) ==
  LET c == th[t].c IN
  /\ pc[t] = "map_locked"
  /\ \E out \in {"ok", "timeout", "panic"} : Return(t, MapResult(out, value[c]))
  /\ readers' = [readers EXCEPT ![c] = @ \ {t}]
  /\ UNCHANGED <<npush, dropVars>>
  /\ UNCHANGED <<cellVars, writer, handleVars, logVars, nops>>

(* ------------------------- Slock::get, get_clone ----------------------- *)
\* the value a read through handle h copies out: v.value (get), v.value.clone()
ReadValue(h) == value[hcell[h]]

\* a call that holds its lock for no step of another thread: it starts once the lock
\* can be had and returns r in the same step
Instant(t, h, r) ==
  /\ pc[t] = "idle"
  /\ nops < MaxOps
  /\ nops' = nops + 1
  /\ ret' = [ret EXCEPT ![t] = [r EXCEPT !.h = h]]
  /\ UNCHANGED <<pc, th>>

\* get and get_clone through handle h: self.lock.read() returns and the value is
\* copied out, or the lock is poisoned and the call panics
Get(t) ==
  \E h \in Handles :
    /\ Live(h)
    /\ CanRead(hcell[h])
    /\ IF poisoned[hcell[h]]
         THEN Instant(t, h, Panicked)
         ELSE Instant(t, h, [NoRet EXCEPT !.res = "value", !.val = ReadValue(h)])
    /\ UNCHANGED <<npush, dropVars>>
    /\ UNCHANGED <<cellVars, lockVars, handleVars, logVars>>

(* ------------------------------ Slock::hook ---------------------------- *)
\* a registration that calls the hook it installs
HookRegisterNotifying(t) ==
  \E h \in Handles, k \in HookIds :
    /\ Live(h)
    /\ CanWrite(hcell[h])
    /\ ~poisoned[hcell[h]]
    /\ hook' = [hook EXCEPT ![hcell[h]] = k]
    /\ hookCalls' = [hookCalls EXCEPT ![hcell[h]][k] = @ + 1]
    /\ Instant(t, h, [NoRet EXCEPT !.res = "unit"])
    /\ UNCHANGED <<npush, dropVars>>
    /\ UNCHANGED <<value, version, slot, poisoned, init, lockVars, handleVars, nsets,
                   nincs, okHooked, lost, lastArg>>

\* a registration that counts itself in version
HookRegisterCounted(t) ==
  \E h \in Handles, k \in HookIds :
    /\ Live(h)
    /\ CanWrite(hcell[h])
    /\ ~poisoned[hcell[h]]
    /\ hook' = [hook EXCEPT ![hcell[h]] = k]
    /\ version' = [version EXCEPT ![hcell[h]] = @ + 1]
    /\ Instant(t, h, [NoRet EXCEPT !.res = "unit"])
    /\ UNCHANGED <<npush, dropVars>>
    /\ UNCHANGED <<value, slot, poisoned, init, lockVars, handleVars, logVars>>

\* hook(k) through handle h: self.lock.write() returns and data.hook = Some(hook),
\* or the lock is poisoned and the call panics
HookRegister(t) ==
  \E h \in Handles, k \in HookIds :
    /\ Live(h)
    /\ CanWrite(hcell[h])
    /\ IF poisoned[hcell[h]]
         THEN /\ Instant(t, h, Panicked)
              /\ UNCHANGED hook
         ELSE /\ hook' = [hook EXCEPT ![hcell[h]] = k]
              /\ Instant(t, h, [NoRet EXCEPT !.res = "unit"])
    /\ UNCHANGED <<npush, dropVars>>
    /\ UNCHANGED <<value, version, slot, poisoned, init, lockVars, handleVars, logVars>>

(* ------------------------------ Slock::split --------------------------- *)
\* a split that hands out a handle to some other cell
SplitTargetOther(h) == IF hcell[h] = 1 THEN 2 ELSE 1

\* the cell the handle made by split of h points at: self.lock.clone()
SplitTarget(h) == hcell[h]

Split(t) ==
  \E h \in Handles :
    /\ Live(h)
    /\ nhandles < MaxHandles
    /\ nhandles' = nhandles + 1
    /\ hcell' = [hcell EXCEPT ![nhandles + 1] = SplitTarget(h)]
    /\ origin' = [origin EXCEPT ![nhandles + 1] = [kind |-> "split", from |-> h]]
    /\ Instant(t, h, [NoRet EXCEPT !.res = "handle", !.val = nhandles + 1])
    /\ UNCHANGED <<npush, dropVars>>
    /\ UNCHANGED <<cellVars, lockVars, ncells, logVars>>

(* ----------------------- Slock::clone_async, clone --------------------- *)
\* a clone that shares the Arc as split does
CloneTargetAlias(h) == hcell[h]

\* the cell the handle made by a clone of h points at: the one Slock::new builds
CloneTarget(h) == ncells + 1

\* clone_async (lib.rs) and the blocking clone (blocking.rs) through handle h:
\* get_clone() returns and Slock::new wraps the copy, or the lock is poisoned
Clone(t) ==
  \E h \in Handles :
    LET d == CloneTarget(h)
        g == nhandles + 1
        data == NewData(ReadValue(h)) IN
    /\ Live(h)
    /\ CanRead(hcell[h])
    /\ IF poisoned[hcell[h]]
         THEN /\ Instant(t, h, Panicked)
              /\ UNCHANGED <<value, version, hook, init, handleVars>>
         ELSE /\ ncells < MaxCells
              /\ nhandles < MaxHandles
              /\ ncells' = IF d > ncells THEN ncells + 1 ELSE ncells
              /\ nhandles' = nhandles + 1
              /\ value' = [value EXCEPT ![d] = data.value]
              /\ version' = [version EXCEPT ![d] = data.version]
              /\ hook' = [hook EXCEPT ![d] = data.hook]
              /\ init' = [init EXCEPT ![d] = data.value]
              /\ hcell' = [hcell EXCEPT ![g] = d]
              /\ origin' = [origin EXCEPT ![g] = [kind |-> "clone", from |-> h]]
              /\ Instant(t, h, [NoRet EXCEPT !.res = "handle", !.val = g])
    /\ UNCHANGED <<npush, dropVars>>
    /\ UNCHANGED <<slot, poisoned, lockVars, logVars>>

(* --------------------------- Slock<Vec<T>>::push ----------------------- *)
\* lock.push(item) through handle h is self.set(|mut v| { v.push(item); v }); the
\* callers push distinct items, numbered by the calls
CallPush(t) ==
  \E h \in Handles :
    /\ Live(h)
    /\ Call(t, "set_wait", [NoCall EXCEPT !.op = "set", !.h = h, !.c = hcell[h],
                                          !.fn = "push", !.h2 = h, !.arg = nops + 1])
    /\ UNCHANGED <<npush, dropVars>>
    /\ UNCHANGED <<cellVars, lockVars, handleVars, logVars>>

(* ------------------------------- SlockMap ------------------------------ *)
\* a map's value: for each key the cell of the Slock<V> stored under it, 0 for none;
\* new_map() builds HashMap::new()
EmptyMap == [k \in Keys |-> 0]

\* a lookup that finds what is stored under another key
LookupOther(m, k) == m[IF k = 1 THEN 2 ELSE 1]

\* hash_map.get(&key): the cell stored under the key, 0 for None
Lookup(m, k) == m[k]

\* an insert that keeps the entry a key already has
StoredIfAbsent(m, k, d) == IF m[k] = 0 THEN [m EXCEPT ![k] = d] ELSE m

\* hash_map.insert(key, slock): the map with the Slock of cell d under the key
Stored(m, k, d) == [m EXCEPT ![k] = d]

\* the calls in flight that may still build a handle (from_key) or a cell (insert)
Pending(op) == Cardinality({t \in Threads : th[t].op = op /\ pc[t] # "idle"})

\* map.from_key(key) through handle h of the map: self.map(..) of line 247
CallFromKey(t) ==
  \E h \in Handles, k \in Keys :
    /\ Live(h)
    /\ hcell[h] = 1
    /\ nhandles + Pending("from_key") < MaxHandles
    /\ Call(t, "map_wait", [NoCall EXCEPT !.op = "from_key", !.h = h, !.c = hcell[h],
                                          !.key = k])
    /\ UNCHANGED <<npush, dropVars>>
    /\ UNCHANGED <<cellVars, lockVars, handleVars, logVars>>

\* map.insert(key, updater) through handle h of the map starts with
\* self.from_key(key) (line 235); the callers' updaters are None -> arg,
\* Some(v) -> v + arg, with arg numbered by the calls
CallInsert(t) ==
  \E h \in Handles, k \in Keys :
    /\ Live(h)
    /\ hcell[h] = 1
    /\ ncells + Pending("insert") < MaxCells
    /\ Call(t, "map_wait", [NoCall EXCEPT !.op = "insert", !.h = h, !.c = hcell[h],
                                          !.key = k, !.arg = nops + 1])
    /\ UNCHANGED <<npush, dropVars>>
    /\ UNCHANGED <<cellVars, lockVars, handleVars, logVars>>

\* the mapper of from_key under its guard (lines 247-252), the read guard dropped:
\* Some(inner.split()) or None, and unwrap() panics when the guard elapsed. For
\* from_key itself the result is returned; insert goes on to the set of line 236 on
\* the cell found, or to the set of line 238 on the map
FromKeyRun(t) ==
  LET c == th[t].c
      k == th[t].key
      e == Lookup(value[c], k)
      g == nhandles + 1 IN
  /\ pc[t] = "map_locked"
  /\ th[t].op \in {"from_key", "insert"}
  /\ readers' = [readers EXCEPT ![c] = @ \ {t}]
  /\ \E out \in {"ok", "timeout"} :
       IF out = "timeout"
         THEN /\ Return(t, [Panicked EXCEPT !.guard = "timeout", !.tries = 1])
              /\ UNCHANGED handleVars
         ELSE IF th[t].op = "insert"
           THEN /\ pc' = [pc EXCEPT ![t] = "set_wait"]
                /\ th' = [th EXCEPT ![t].c = IF e = 0 THEN c ELSE e,
                                    ![t].fn = IF e = 0 THEN "insert" ELSE "upd"]
                /\ UNCHANGED <<ret, handleVars>>
           ELSE IF e = 0
             THEN /\ Return(t, [NoRet EXCEPT !.guard = "ok", !.res = "None", !.tries = 1])
                  /\ UNCHANGED handleVars
             ELSE /\ nhandles' = g
                  /\ hcell' = [hcell EXCEPT ![g] = e]
                  /\ origin' = [origin EXCEPT ![g] = [kind |-> "key", from |-> k]]
                  /\ Return(t, [NoRet EXCEPT !.guard = "ok", !.res = "Some", !.val = g,
                                             !.tries = 1])
                  /\ UNCHANGED ncells
  /\ UNCHANGED <<npush, dropVars>>
  /\ UNCHANGED <<cellVars, writer, logVars, nops>>

\* the closure of line 238 runs in the map's write section: Slock::new(setter(None))
\* builds a cell, hash_map.insert stores it under the key and drops the Slock it
\* replaces, if any, and with it that cell when no handle is left for it
InsertRun(t) ==
  LET c == th[t].c
      k == th[t].key
      e == Lookup(value[c], k)
      d == ncells + 1
      data == NewData(th[t].arg) IN
  /\ pc[t] = "set_locked"
  /\ th[t].fn = "insert"
  /\ ncells < MaxCells
  /\ ncells' = d
  /\ value' = [value EXCEPT ![d] = data.value]
  /\ version' = [version EXCEPT ![d] = data.version]
  /\ hook' = [hook EXCEPT ![d] = data.hook]
  /\ init' = [init EXCEPT ![d] = data.value]
  /\ slot' = [slot EXCEPT ![c] = "taken"]
  /\ th' = [th EXCEPT ![t].new = Stored(value[c], k, d), ![t].obj = cur[c]]
  /\ drops' = IF e # 0 /\ HandlesOf(e) = {} /\ \A u \in Threads : th[u].c # e
                THEN Dropped(e, cur[e]) ELSE drops
  /\ pc' = [pc EXCEPT ![t] = "set_hook"]
  /\ UNCHANGED <<poisoned, lockVars, nhandles, hcell, origin, logVars, ret, nops, npush,
                 cur, built>>

(* ------------------------------ drop(Slock) ---------------------------- *)
\* cell c was built and its last handle is gone: the SlockData has been dropped
Gone(c) == c <= ncells /\ HandlesOf(c) = {}

\* a handle that no call borrows is dropped (std::mem::drop(lock), tests.rs:87): the
\* Arc's count goes down, and with the last handle the SlockData is dropped, and its
\* value field with it: the destructor runs on whatever the slot holds
DropHandle(t) ==
  \E h \in Handles :
    LET c == hcell[h] IN
    /\ pc[t] = "idle"
    /\ Live(h)
    /\ \A u \in Threads : th[u].h # h /\ th[u].h2 # h
    /\ hcell' = [hcell EXCEPT ![h] = 0]
    /\ drops' = IF HandlesOf(c) = {h} THEN Dropped(c, cur[c]) ELSE drops
    /\ UNCHANGED <<cellVars, lockVars, ncells, nhandles, origin, pc, th, ret, logVars,
                   nops, npush, cur, built>>

(* ------------------------------- claims -------------------------------- *)
\* C1: serialization. When every set call that has returned on a cell applied
\* v -> v + 1 and returned a value (none timed out), the cell's value is its initial
\* value plus the number of those calls: no increment is lost, whatever the
\* interleaving and whichever handles were used.
C1_Serialization ==
  \A c \in Cells : nincs[c] = nsets[c] => value[c] = init[c] + nsets[c]

\* three increments have returned on one cell, and nothing else
C1_Witness ==
  \E c \in Cells : nsets[c] = 3 /\ nincs[c] = 3 /\ value[c] = init[c] + 3

\* C2: monotonic count. A cell built by new has version 0, and its version equals the
\* number of set calls that have returned on it, timed out or not.
C2_VersionCountsSets ==
  \A c \in Cells : version[c] = nsets[c]

\* a set has just returned after its guard elapsed, on a cell that counts two sets
C2_Witness ==
  \E t \in Threads :
    /\ ret[t].guard = "timeout"
    /\ ret[t].res = "unit"
    /\ version[hcell[ret[t].h]] = 2
    /\ nsets[hcell[ret[t].h]] = 2


\* the handle a chain of splits started from
RECURSIVE SplitRoot(_)
SplitRoot(h) == IF origin[h].kind = "split" THEN SplitRoot(origin[h].from) ELSE h

\* the handles made from the same handle by splits, at any depth
Family(h) == {g \in Handles : Live(g) /\ SplitRoot(g) = SplitRoot(h)}

\* thread t's set returns in this step with its setter's value written
SetReturns(t) == pc[t] = "set_hook" /\ pc'[t] = "idle" /\ ret'[t].guard = "ok"

\* thread t's get, get_clone or map returns a value in this step
ReadReturns(t) == ret'[t] # ret[t] /\ ret'[t].res \in {"value", "Ok"}

\* a split makes handle g in this step
SplitMakes(g) == ~Live(g) /\ origin'[g].kind = "split"

\* C3: aliasing. Every handle made by split, at any depth, points at the cell of the
\* handle it was split from; a set that returns through any handle of the family
\* leaves its new value to be read through every handle of the family; a get,
\* get_clone or map through any of them returns the value of that one cell; and
\* split itself copies no data (no cell is built) and changes no cell's value,
\* version or hook.
C3_Aliasing ==
  /\ [](\A h \in Handles : Live(h) => hcell[h] = hcell[SplitRoot(h)])
  /\ [][/\ \A t \in Threads :
             SetReturns(t) => \A g \in Family(th[t].h) : value'[hcell'[g]] = th[t].new
        /\ \A t \in Threads :
             ReadReturns(t) =>
               \A g \in Family(ret'[t].h) : ret'[t].val = value[hcell[g]]
        /\ \A g \in Handles :
             SplitMakes(g) =>
               /\ hcell'[g] = hcell[origin'[g].from]
               /\ UNCHANGED <<value, version, hook, ncells>>]_vars

\* handle 3 is a split of a split of handle 1, a set has changed the cell, and a
\* read through handle 3 has returned the changed value that handle 1 reads too
C3_Witness ==
  \E t \in Threads :
    /\ origin[3].kind = "split"
    /\ origin[origin[3].from].kind = "split"
    /\ SplitRoot(3) = 1
    /\ ret[t].res = "value"
    /\ ret[t].h = 3
    /\ nincs[hcell[1]] = 1
    /\ ret[t].val = init[hcell[1]] + 1
    /\ value[hcell[1]] = ret[t].val

\* a clone makes handle g in this step
CloneMakes(g) == ~Live(g) /\ origin'[g].kind = "clone"

\* C4: independence. A handle made by clone_async or clone points at a cell of its
\* own, built in that step with the value read from the original, version 0 and no
\* hook; and a cell's value changes only in the write section of a set called through
\* a handle of that very cell, so sets on the duplicate never change the original
\* and sets on the original never change the duplicate.
C4_Independence ==
  /\ [](\A g \in Handles :
          origin[g].kind = "clone" => hcell[g] # hcell[origin[g].from])
  /\ [][/\ \A g \in Handles :
             CloneMakes(g) =>
               /\ hcell'[g] > ncells
               /\ value'[hcell'[g]] = value[hcell[origin'[g].from]]
               /\ version'[hcell'[g]] = 0
               /\ hook'[hcell'[g]] = 0
               /\ \A c \in 1..ncells : value'[c] = value[c] /\ version'[c] = version[c]
        /\ \A c \in 1..ncells :
             value'[c] # value[c] =>
               \E t \in Threads : SetReturns(t) /\ hcell[th[t].h] = c]_vars

\* a duplicate and its original have both been set since the clone and differ
C4_Witness ==
  \E g \in Handles :
    /\ origin[g].kind = "clone"
    /\ nsets[hcell[g]] >= 1
    /\ nsets[hcell[origin[g].from]] >= 1
    /\ value[hcell[g]] # value[hcell[origin[g].from]]


\* how often hooks 1..k of cell c were invoked
RECURSIVE CallsUpTo(_, _)
CallsUpTo(c, k) == IF k = 0 THEN 0 ELSE hookCalls[c][k] + CallsUpTo(c, k - 1)

\* how often a hook of cell c was invoked
TotalCalls(c) == CallsUpTo(c, NHooks)

\* a hook of cell c is invoked in this step
HookInvoked(c) == hookCalls'[c] # hookCalls[c]

Awaits(t) ==
  CASE pc[t] \in {"set_wait", "map_wait"} -> th[t].c
    [] pc[t] = "set_nest" -> hcell[th[t].h2]
    [] OTHER -> 0

\* the threads that hold cell c's lock
Holders(c) == readers[c] \cup ({writer[c]} \ {0})

\* thread t waits for a lock it cannot be given now
Blocked(t) ==
  CASE pc[t] = "set_wait" -> ~CanWrite(th[t].c)
    [] pc[t] \in {"map_wait", "set_nest"} -> ~CanRead(Awaits(t))
    [] OTHER -> FALSE

\* some threads are blocked on locks held only by threads among themselves
Deadlock ==
  \E S \in SUBSET Threads :
    /\ S # {}
    /\ \A t \in S : Blocked(t) /\ Holders(Awaits(t)) \subseteq S

\* C6: deadlock freedom. In no reachable state is a thread blocked on a cell's lock
\* while every holder of that lock is itself blocked on a Slock lock, and so on in a
\* circle: no set of threads waits forever on one another.
C6_NoDeadlock == ~Deadlock

\* the positions of a thread inside the write section of set
WritePcs == {"set_locked", "set_nest", "set_run", "set_hook"}

\* the threads inside a write section on cell c: between lock.write() and the drop of
\* the guard, where the setter and the hook run
InWrite(c) == {t \in Threads : pc[t] \in WritePcs /\ th[t].c = c}

\* the threads inside a read section on cell c, where the mapper runs
InRead(c) == {t \in Threads : pc[t] = "map_locked" /\ th[t].c = c}

\* C7: reader/writer exclusion. On every cell at most one thread is inside a write
\* section, and no thread is inside a read section while one is; the threads running
\* a setter or a hook are exactly the holder of the exclusive lock, the threads
\* running a mapper are exactly the holders of the shared lock; a hook registration
\* happens only when nobody is inside a section of the cell, and a get, get_clone or
\* clone copies the value out only when nobody is inside a write section of it.
C7_Exclusion ==
  /\ [](\A c \in Cells :
          /\ Cardinality(InWrite(c)) <= 1
          /\ InWrite(c) # {} => InRead(c) = {}
          /\ InWrite(c) = {writer[c]} \ {0}
          /\ InRead(c) = readers[c])
  /\ [][/\ \A c \in Cells :
             hook'[c] # hook[c] => InWrite(c) = {} /\ InRead(c) = {}
        /\ \A t \in Threads :
             (pc[t] = "idle" /\ ret'[t] # ret[t]
                /\ (ret'[t].res = "value" \/ ncells' # ncells))
               => InWrite(hcell[ret'[t].h]) = {}]_vars

\* a thread is inside the write section of a cell and the other one, which has
\* called map on that cell, is kept waiting
C7_Witness ==
  \E c \in Cells, t, u \in Threads :
    /\ t \in InWrite(c)
    /\ pc[t] = "set_hook"
    /\ pc[u] = "map_wait"
    /\ th[u].c = c
    /\ Blocked(u)

\* two threads are inside read sections of one cell together
C7_SharedReaders == \E c \in Cells : Cardinality(InRead(c)) = 2

SetTimesOut(t) == pc[t] = "set_locked" /\ pc'[t] = "idle" /\ ret'[t].guard = "timeout"

C10_ValueValid ==
  \A c \in Cells : writer[c] = 0 => slot[c] = "valid"

\* C11: drop exactly once. No value built for a cell has its destructor run twice,
\* and once the cell's last handle is gone every value built for it, the initial one
\* and each one a setter built, has had its destructor run exactly once.
C11_DropOnce ==
  \A c \in Cells :
    /\ \A o \in Objs : drops[c][o] <= 1
    /\ Gone(c) => \A o \in 0..(built[c] - 1) : drops[c][o] = 1

\* a registration replaces the hook of cell c in this step
Registers(c) == hook'[c] # hook[c]

\* thread t's from_key returns in this step
FromKeyReturns(t) == pc[t] = "map_locked" /\ th[t].op = "from_key" /\ pc'[t] = "idle"

\* thread t's insert, having found no entry, returns in this step with its cell stored
InsertStores(t) == SetReturns(t) /\ th[t].fn = "insert"

\* thread t's insert, having found an entry, returns in this step with it updated
InsertUpdates(t) == SetReturns(t) /\ th[t].fn = "upd"

CallReturns(t, c) ==
  /\ ret'[t] # ret[t]
  /\ ret'[t].h # 0
  /\ hcell[ret'[t].h] = c
  /\ ~(ret'[t].res = "handle" /\ origin'[ret'[t].val].kind = "split")

\* C15: poisoning is fatal. A lock poisoned by a panic inside a write section stays
\* poisoned; from then on no thread is inside a section of the cell, the cell's
\* value, version, hook and hook invocations never change, and every set, map, get,
\* get_clone, hook or clone that returns through a handle of the cell returns by the
\* panic: never a value, unit or TimedOut.
C15_PoisonFatal ==
  /\ [](\A c \in Cells : poisoned[c] => writer[c] = 0 /\ readers[c] = {})
  /\ [][\A c \in Cells :
          poisoned[c] =>
            /\ poisoned'[c]
            /\ value'[c] = value[c] /\ version'[c] = version[c] /\ hook'[c] = hook[c]
            /\ hookCalls'[c] = hookCalls[c] /\ slot'[c] = slot[c]
            /\ \A t \in Threads : CallReturns(t, c) => ret'[t].res = "panic"]_vars

\* a set panicked inside the write section of a cell, and a later call of the other
\* thread through a handle of that cell has ended in the panic of the poisoned lock
C15_Witness ==
  \E c \in Cells, t, u \in Threads :
    /\ poisoned[c]
    /\ ret[t].guard = "panic" /\ hcell[ret[t].h] = c
    /\ ret[u].guard = "none" /\ ret[u].res = "panic" /\ hcell[ret[u].h] = c

\* a set returns normally on cell c in this step, its setter returned or timed out
SetEnds(c) ==
  \E t \in Threads :
    /\ pc[t] \in {"set_locked", "set_hook"}
    /\ th[t].c = c
    /\ pc'[t] = "idle"
    /\ ret'[t].res = "unit"

\* C16 as stated: a hook registration is a write section and steps version by one.
C16_RegistrationCounted ==
  [][\A c \in Cells : hook'[c] # hook[c] => version'[c] = version[c] + 1]_vars

\* C16 as amended: version changes only by +1 and only in the step that ends a write
\* section of set and releases the lock; every write section of set that ends
\* normally (its setter returned or timed out) makes exactly one such step; a write
\* section that ends in a panic and the write section of a hook registration leave
\* version as it is.
C16_VersionStepsPerSet ==
  [][\A c \in Cells :
       /\ version'[c] \in {version[c], version[c] + 1}
       /\ version'[c] # version[c] <=> SetEnds(c)
       /\ version'[c] # version[c] => writer[c] # 0 /\ writer'[c] = 0
       /\ Registers(c) => version'[c] = version[c]
       /\ (poisoned'[c] /\ ~poisoned[c]) => version'[c] = version[c]]_vars

\* a cell with a registered hook on which one set returned and one panicked: its
\* version is 1
C16_Witness ==
  \E c \in Cells :
    /\ hook[c] # 0
    /\ poisoned[c]
    /\ nsets[c] = 1
    /\ version[c] = 1

\* C17: a faulty hook never blocks the write path. Whenever a set whose setter
\* returned a replacement ends, by its hook returning, failing or running out of
\* time, the caller gets the normal return, the replacement is the cell's value,
\* version is one more and the lock is released and usable.
C17_HookFailureSwallowed ==
  [][\A t \in Threads :
       (pc[t] = "set_hook" /\ pc'[t] = "idle") =>
         /\ ret'[t].res = "unit"
         /\ value'[th[t].c] = th[t].new
         /\ version'[th[t].c] = version[th[t].c] + 1
         /\ writer'[th[t].c] = 0
         /\ ~poisoned'[th[t].c]]_vars

\* C18: the guard does not bound the wait for the lock. A call that waits for a
\* cell's lock leaves the wait only when the lock can be given to it, and then enters
\* its section, or panics on a poisoned lock, with no guard run; a call blocked on a
\* held lock stays where it is; and a guard elapses only for a call that is inside
\* its section, at the setter, the mapper or the hook.
C18_GuardAfterAcquire ==
  [][\A t \in Threads :
       /\ (pc[t] = "set_wait" /\ pc'[t] # pc[t]) =>
            /\ CanWrite(th[t].c)
            /\ ret'[t].guard = "none"
            /\ IF poisoned[th[t].c] THEN ret'[t].res = "panic"
                                    ELSE pc'[t] = "set_locked" /\ writer'[th[t].c] = t
       /\ (pc[t] = "map_wait" /\ pc'[t] # pc[t]) =>
            /\ CanRead(th[t].c)
            /\ ret'[t].guard = "none"
            /\ IF poisoned[th[t].c] THEN ret'[t].res = "panic"
                                    ELSE pc'[t] = "map_locked" /\ t \in readers'[th[t].c]
       /\ Blocked(t) => pc'[t] = pc[t] /\ th'[t] = th[t] /\ ret'[t] = ret[t]
       /\ (ret'[t].guard = "timeout" /\ ret'[t] # ret[t]) =>
            pc[t] \in {"set_locked", "map_locked"}]_vars

\* a set waits for a cell whose lock a mapper of the other thread holds
C18_Witness ==
  \E t, u \in Threads :
    /\ pc[t] = "map_locked"
    /\ pc[u] = "set_wait"
    /\ th[u].c = th[t].c
    /\ Blocked(u)

\* C19: race on insert. An insert holds no lock between its lookup and its set, so
\* an insert that found the key absent stores its cell whatever the map holds by
\* then: the key's entry is the cell this writer built, holding its updater(None);
\* a cell another insert stored under the key meanwhile is no longer in the map, its
\* value neither kept in the new cell nor changed; and the call returns normally.
C19_RaceOnInsert ==
  /\ [](\A t \in Threads :
          (th[t].op = "insert" /\ pc[t] = "set_wait") =>
            t \notin readers[1] /\ writer[1] # t)
  /\ [][\A t \in Threads :
          InsertStores(t) =>
            LET k == th[t].key
                e == value[1][k]
                d == value'[1][k] IN
            /\ th[t].c = 1
            /\ d = th[t].new[k]
            /\ d # e
            /\ value'[d] = th[t].arg
            /\ e # 0 => /\ \A k2 \in Keys : value'[1][k2] # e
                        /\ value'[e] = value[e]
            /\ version'[1] = version[1] + 1
            /\ ret'[t].res = "unit"]_vars

\* two inserts found the same key absent and both returned: two cells were built,
\* the map holds one entry, the cell of the later writer with its updater(None)
C19_Witness ==
  \E k \in Keys :
    /\ ncells = 3
    /\ nsets[1] = 2
    /\ version[1] = 2
    /\ value[1][k] = 3
    /\ \A k2 \in Keys \ {k} : value[1][k2] = 0
    /\ value[3] = init[3]
    /\ value[2] = init[2]
    /\ \A t \in Threads : ret[t].res = "unit" /\ ret[t].guard = "ok"

PushReturns(t) == SetReturns(t) /\ th[t].fn = "push"

\* C12: concurrent append. Each push is one set: a push whose setter returned
\* appends its item and nothing else, a sequence never loses or reorders what it
\* holds, and when all N pushes that have returned on a cell appended their item
\* (none timed out), the sequence is N longer than at the start, holds no item twice,
\* and the cell's version is N.
C12_ConcurrentAppend ==
  /\ [](\A c \in 1..ncells :
          npush[c] = nsets[c] =>
            /\ Len(value[c]) = Len(init[c]) + nsets[c]
            /\ \A i, j \in 1..Len(value[c]) : value[c][i] = value[c][j] => i = j
            /\ version[c] = nsets[c])
  /\ [][/\ \A t \in Threads :
             PushReturns(t) =>
               /\ value'[th[t].c] = Append(value[th[t].c], th[t].arg)
               /\ version'[th[t].c] = version[th[t].c] + 1
        /\ \A c \in 1..ncells :
             /\ Len(value'[c]) >= Len(value[c])
             /\ \A i \in 1..Len(value[c]) : value'[c][i] = value[c][i]]_vars

\* three pushes have returned on the cell, the second caller's item ahead of the
\* first caller's
C12_Witness ==
  /\ npush[1] = 3
  /\ nsets[1] = 3
  /\ Len(value[1]) = 3
  /\ value[1][1] > value[1][2]

(* ------------------------------------------------------------------------ *)
Next ==
  \E t \in Threads :
    \/ CallSet(t)
    \/ SetAcquire(t)
    \/ SetTimeout(t)
    \/ SetterRun(t)
    \/ SetterPanic(t)
    \/ NestCall(t)
    \/ NestGet(t)
    \/ SetNotify(t)
    \/ CallMap(t)
    \/ MapAcquire(t)
    \/ MapRun(t)
    \/ Get(t)
    \/ HookRegister(t)
    \/ Split(t)
    \/ Clone(t)

Spec == Init /\ [][Next]_vars

\* the life of one cell of a type with a destructor: sets through its handles, then
\* the handles are dropped (tests.rs: destruction, non_destruction)
NextDrop ==
  \E t \in Threads :
    \/ CallSet(t)
    \/ SetAcquire(t)
    \/ SetTimeout(t)
    \/ SetterRun(t)
    \/ SetterPanic(t)
    \/ SetNotify(t)
    \/ HookRegister(t)
    \/ Split(t)
    \/ DropHandle(t)

SpecDrop == Init /\ [][NextDrop]_vars

\* a sequence cell, lock = Slock::new(Vec::new()) (tests.rs:63), and its pushes
NextVec ==
  \E t \in Threads :
    \/ CallPush(t)
    \/ SetAcquire(t)
    \/ SetTimeout(t)
    \/ SetterRun(t)
    \/ SetNotify(t)
    \/ Get(t)
    \/ Split(t)

InitVec == InitNew(<<>>)

\* a map cell, map = SlockMap::new_map(), its lookups and inserts, and the calls
\* made on the inner cells through the handles from_key returns
NextMap ==
  \E t \in Threads :
    \/ CallFromKey(t)
    \/ CallInsert(t)
    \/ MapAcquire(t)
    \/ FromKeyRun(t)
    \/ SetAcquire(t)
    \/ SetTimeout(t)
    \/ SetterRun(t)
    \/ SetterPanic(t)
    \/ InsertRun(t)
    \/ SetNotify(t)
    \/ Get(t)
    \/ HookRegister(t)

InitMap == InitNew(EmptyMap)

SpecMap == InitMap /\ [][NextMap]_vars

SpecVec == InitVec /\ [][NextVec]_vars
====
